---- MODULE Spec2Model ----
(***************************************************************************)
(* Model of the opencode-gondolin plugin: the session registry             *)
(* (session-manager.ts), the worktree manager (worktree.ts), the bash      *)
(* tool (bash-tool.ts) and the create-branch tool (create-branch-tool.ts). *)
(*                                                                         *)
(* JavaScript runs the synchronous part of a handler atomically; every     *)
(* `await` of external I/O is a suspension point.  One action models one   *)
(* synchronous run: from a call (or the completion of an awaited I/O) to   *)
(* the next await of external I/O.                                         *)
(***************************************************************************)
EXTENDS Integers, Sequences, FiniteSets, TLC

\* ---------------------------------------------------------------- bounds
MaxInst == 2          \* init() runs (session objects) ever started
MaxCalls == 2         \* getOrCreate() invocations
MaxDestroyAll == 1    \* destroyAll() invocations
MaxChunks == 2        \* output chunks the process delivers in one run
MaxBranchRuns == 2    \* runs of the create-branch tool's execute
MaxPathLen == 4       \* characters of a working-directory override

SessionIDs == {"s1", "s2"}
NoId == "-"
None == 0

Insts == 1..MaxInst
Calls == 1..MaxCalls
DAlls == 1..MaxDestroyAll
BranchRuns == 1..MaxBranchRuns
BranchNames == {"b1", "b2"}
\* The session the tools are called for where one session is enough.
ToolSession == "s1"

VARIABLES
  sessions,      \* SessionManager.sessions: id -> session object (None: absent)
  initializing,  \* SessionManager.initializing: id -> init promise (None: absent)
  inits,         \* every init() run: its session id and where it stands
  calls,         \* every getOrCreate() invocation
  teardown,      \* per session object: where its destroy() stands
  closeCalls,    \* per session object: number of vm.close() calls (capped at 2)
  removeCalls,   \* per session object: number of removeWorktree() calls (capped at 2)
  vmState,       \* per session object: "none" | "open" | "closed"
  wtDir,         \* per path baseDir/id: the directory exists
  wtReg,         \* per path baseDir/id: git has the worktree registered
  wtOwner,       \* per path baseDir/id: the init run whose `git worktree add` registered it
  lastGet,       \* the last get(id): what it returned, and whether that object was being torn down
  dall,          \* every destroyAll() invocation
  bash,          \* the one run of the bash tool's execute (bash-tool.ts:31-117)
  branchRuns,    \* every run of the create-branch tool's execute
  wtDirty,       \* per path baseDir/id: the worktree has uncommitted changes
  wtAhead,       \* per path baseDir/id: the worktree's HEAD has a commit that is on no remote branch
  remoteBranches \* the branch names that exist on origin

smVars == <<sessions, initializing, inits, calls, teardown, closeCalls, removeCalls,
            vmState, wtDir, wtReg, wtOwner, lastGet, dall>>

gitVars == <<wtDirty, wtAhead>>

branchVars == <<branchRuns, gitVars, remoteBranches>>

toolVars == <<bash, branchVars>>

vars == <<smVars, toolVars>>

\* ---------------------------------------------------------------- helpers
Used == {n \in Insts : inits[n].pc # "unused"}

Pending(n) == inits[n].pc \in {"mkdir", "add", "vm"}

Settled(n) == inits[n].pc \in {"fulfilled", "rejected"}

Torn == {n \in Insts : teardown[n] # "none"}

Bump(k) == IF k < 2 THEN k + 1 ELSE 2

TornOf(id) == {n \in Torn : inits[n].sid = id}

IdleCall == [sid |-> NoId, role |-> "-", pc |-> "idle", promise |-> None, result |-> None,
             torn |-> {}]

\* ---------------------------------------------------------------- text
\* A string is kept as its runs of equal characters, <<[ch, n], ...>>, no two
\* neighbouring runs with the same character, so that 30 000 characters are
\* one record.  "o" is a character of stdout data, "e" one of stderr data,
\* "nl" the newline; the text of a marker is one run of its own character,
\* as long as the marker.
\* bash-tool.ts:4
MAX_METADATA_LENGTH == 30000

\* bash-tool.ts:110  "<metadata>Command timed out</metadata>", 38 characters
TimeoutText == <<[ch |-> "T", n |-> 38]>>

\* bash-tool.ts:113  "<metadata>Command was aborted</metadata>", 40 characters
AbortText == <<[ch |-> "A", n |-> 40]>>

Newline == <<[ch |-> "nl", n |-> 1]>>

\* bash-tool.ts:110  "\n<metadata>Command timed out</metadata>"
TimeoutMarker == Newline \o TimeoutText

\* bash-tool.ts:113  "\n<metadata>Command was aborted</metadata>"
AbortMarker == Newline \o AbortText

Streams == {"stdout", "stderr"}
ChunkSizes == {1, 29999, 30000}

Data(stream, n) == <<[ch |-> IF stream = "stdout" THEN "o" ELSE "e", n |-> n]>>

\* What one chunk of proc.output() can carry: data of either stream, of any
\* of the sizes, and, the command being free to print anything, the text of
\* a marker on stdout.
ChunkData ==
  {[stream |-> st, data |-> Data(st, n)] : st \in Streams, n \in ChunkSizes}
    \cup {[stream |-> "stdout", data |-> AbortText]}

RECURSIVE Length(_)
Length(t) == IF t = <<>> THEN 0 ELSE Head(t).n + Length(Tail(t))

\* String concatenation (the += of bash-tool.ts:81, 99, 110, 113).
Cat(a, b) ==
  IF a = <<>> THEN b
  ELSE IF b = <<>> THEN a
  ELSE IF a[Len(a)].ch = Head(b).ch
       THEN SubSeq(a, 1, Len(a) - 1) \o <<[ch |-> Head(b).ch, n |-> a[Len(a)].n + Head(b).n]>>
            \o Tail(b)
       ELSE a \o b

\* The characters of t from index k on.
RECURSIVE Drop(_, _)
Drop(t, k) ==
  IF k = 0 \/ t = <<>> THEN t
  ELSE IF Head(t).n <= k THEN Drop(Tail(t), k - Head(t).n)
  ELSE <<[ch |-> Head(t).ch, n |-> Head(t).n - k]>> \o Tail(t)

\* The first k characters of t.
RECURSIVE Take(_, _)
Take(t, k) ==
  IF k = 0 \/ t = <<>> THEN <<>>
  ELSE IF Head(t).n <= k THEN <<Head(t)>> \o Take(Tail(t), k - Head(t).n)
  ELSE <<[ch |-> Head(t).ch, n |-> k]>>

\* String.prototype.slice(start): a negative start counts from the end.
slice(t, start) ==
  LET len == Length(t)
      from == IF start < 0
              THEN (IF len + start > 0 THEN len + start ELSE 0)
              ELSE (IF start < len THEN start ELSE len)
  IN Drop(t, from)

IdleBranch == [pc |-> "idle", sid |-> NoId, name |-> NoId, result |-> "-", unpushed |-> FALSE]

\* Paths are strings over a small alphabet, kept as sequences of characters.
\* bash-tool.ts:9-10: the project directory and the mount point of the
\* workspace in the VM (index.ts:8 "/workspace").
Chars == {"/", "p", "x"}
Paths == UNION {[1..k -> Chars] : k \in 0..MaxPathLen}
projectDir == <<"/", "p">>
vmWorkspace == <<"/", "w">>

\* String.prototype.startsWith
startsWith(str, prefix) ==
  Len(str) >= Len(prefix) /\ SubSeq(str, 1, Len(prefix)) = prefix

\* path.normalize on paths without "." segments: runs of separators collapse
RECURSIVE normalize(_)
normalize(path) ==
  IF Len(path) < 2 THEN path
  ELSE IF path[1] = "/" /\ path[2] = "/" THEN normalize(Tail(path))
  ELSE <<path[1]>> \o normalize(Tail(path))

\* path-remap.ts:27, 31-37  the paths whose project prefix remapPath replaces:
\* the absolute paths that, normalized, are the normalized project directory
\* or start with it followed by the separator.
UnderProject(filePath) ==
  /\ filePath # <<>> /\ filePath[1] = "/"
  /\ \/ normalize(filePath) = normalize(projectDir)
     \/ startsWith(normalize(filePath), normalize(projectDir) \o <<"/">>)

\* bash-tool.ts:35-43  the working directory inside the VM
ResolveCwd(workdir) ==
  IF workdir = <<>> THEN vmWorkspace
  ELSE IF startsWith(workdir, projectDir)
       THEN vmWorkspace \o SubSeq(workdir, Len(projectDir) + 1, Len(workdir))
       ELSE workdir

IdleBash ==
  [pc |-> "idle", call |-> None, resolved |-> FALSE, signal |-> FALSE,
   timer |-> "unset", listener |-> "unset", timedOut |-> FALSE, aborted |-> FALSE,
   kills |-> 0, proc |-> "none", output |-> <<>>, meta |-> <<>>, published |-> 0,
   drained |-> <<>>, nChunks |-> 0, errSeen |-> <<>>, body |-> <<>>,
   exitCode |-> 0, errRest |-> <<>>, abortAt |-> "-", workdir |-> <<>>, cwd |-> <<>>]

\* ---------------------------------------------------------------- Init
InitWith(b) ==
  /\ sessions = [id \in SessionIDs |-> None]
  /\ initializing = [id \in SessionIDs |-> None]
  /\ inits = [n \in Insts |-> [sid |-> NoId, pc |-> "unused", deleted |-> "no"]]
  /\ calls = [c \in Calls |-> IdleCall]
  /\ teardown = [n \in Insts |-> "none"]
  /\ closeCalls = [n \in Insts |-> 0]
  /\ removeCalls = [n \in Insts |-> 0]
  /\ vmState = [n \in Insts |-> "none"]
  /\ wtDir = [id \in SessionIDs |-> FALSE]
  /\ wtReg = [id \in SessionIDs |-> FALSE]
  /\ wtOwner = [id \in SessionIDs |-> None]
  /\ lastGet = [result |-> None, torn |-> FALSE]
  /\ dall = [d \in DAlls |-> [pc |-> "idle", ids |-> {}, snap |-> {}]]
  /\ bash = b
  /\ branchRuns = [r \in BranchRuns |-> IdleBranch]
  /\ wtDirty = [id \in SessionIDs |-> FALSE]
  /\ wtAhead = [id \in SessionIDs |-> FALSE]
  /\ remoteBranches = {}

Init == InitWith(IdleBash)

\* The state after construction with an execute call whose args.workdir is
\* any of the paths (an empty args.workdir is no override, bash-tool.ts:36).
InitCwd == \E w \in Paths : InitWith([IdleBash EXCEPT !.workdir = w])

\* ---------------------------------------------------------------- getOrCreate
\* A lookup that never finds the in-flight promise.
InflightNever(id) == None

\* session-manager.ts:29  this.initializing.get(sessionID)
Inflight(id) == initializing[id]

\* A finally block that leaves the in-flight entry in place.
KeepInflight(id) == initializing

\* session-manager.ts:40  finally { this.initializing.delete(sessionID) }
ClearInflight(id) == [initializing EXCEPT ![id] = None]

\* History of the session-deleted events: inits[n].deleted is "inflight" once
\* such an event was handled while init run n was in flight (index.ts:83-90),
\* and "reissued" once a later getOrCreate of the same id was served by run n
\* (session-manager.ts:26-30).
Reissued(n) ==
  [inits EXCEPT ![n].deleted = IF @ = "inflight" THEN "reissued" ELSE @]

\* session-manager.ts:25-33: the synchronous part of getOrCreate, which runs
\* init() up to its first await (fs.mkdir inside createWorktree) and publishes
\* the promise before yielding.
GetOrCreateSync(c, id) ==
  /\ calls[c].pc = "idle"
  /\ \A b \in 1..(c - 1) : calls[b].pc # "idle"
  /\ \/ /\ sessions[id] # None
        /\ calls' = [calls EXCEPT ![c] = [sid |-> id, role |-> "hit", pc |-> "returned",
                                           promise |-> None, result |-> sessions[id],
                                           torn |-> TornOf(id)]]
        /\ inits' = Reissued(sessions[id])
        /\ UNCHANGED initializing
     \/ /\ sessions[id] = None
        /\ Inflight(id) # None
        /\ calls' = [calls EXCEPT ![c] = [sid |-> id, role |-> "waiter", pc |-> "waiting",
                                           promise |-> Inflight(id), result |-> None,
                                           torn |-> TornOf(id)]]
        /\ inits' = Reissued(Inflight(id))
        /\ UNCHANGED initializing
     \/ /\ sessions[id] = None
        /\ Inflight(id) = None
        /\ Cardinality(Used) < MaxInst
        /\ LET n == Cardinality(Used) + 1 IN
             /\ inits' = [inits EXCEPT ![n] = [sid |-> id, pc |-> "mkdir", deleted |-> "no"]]
             /\ initializing' = [initializing EXCEPT ![id] = n]
             /\ calls' = [calls EXCEPT ![c] = [sid |-> id, role |-> "owner", pc |-> "waiting",
                                                promise |-> n, result |-> None,
                                                torn |-> TornOf(id)]]
  /\ UNCHANGED <<sessions, teardown, closeCalls, removeCalls, vmState, wtDir, wtReg,
                 wtOwner, lastGet, dall>>

getOrCreate(c, id) ==
  /\ GetOrCreateSync(c, id)
  /\ UNCHANGED toolVars

\* worktree.ts:18  await fs.mkdir(worktreeDir, { recursive: true }); on success
\* worktree.ts:20 issues `git worktree add`; on failure init() rejects.
mkdirDone(n) ==
  /\ inits[n].pc = "mkdir"
  /\ \E ok \in BOOLEAN :
       IF ok
       THEN /\ wtDir' = [wtDir EXCEPT ![inits[n].sid] = TRUE]
            /\ inits' = [inits EXCEPT ![n].pc = "add"]
       ELSE /\ inits' = [inits EXCEPT ![n].pc = "rejected"]
            /\ UNCHANGED wtDir
  /\ UNCHANGED <<sessions, initializing, calls, teardown, closeCalls, removeCalls, vmState,
                 wtReg, wtOwner, lastGet, dall>>
  /\ UNCHANGED toolVars

\* worktree.ts:20-24  `git worktree add --detach <dir> HEAD`: git refuses a path
\* that is already a registered worktree; any run may fail for other reasons.
\* On success createWorktree returns and init() issues VM.create
\* (session-manager.ts:89).
worktreeAddDone(n) ==
  /\ inits[n].pc = "add"
  /\ LET id == inits[n].sid IN
     \E ok \in BOOLEAN :
       IF ok /\ ~wtReg[id]
       THEN /\ wtReg' = [wtReg EXCEPT ![id] = TRUE]
            /\ wtDir' = [wtDir EXCEPT ![id] = TRUE]
            /\ wtOwner' = [wtOwner EXCEPT ![id] = n]
            /\ wtDirty' = [wtDirty EXCEPT ![id] = FALSE]
            /\ wtAhead' = [wtAhead EXCEPT ![id] = FALSE]
            /\ inits' = [inits EXCEPT ![n].pc = "vm"]
       ELSE /\ inits' = [inits EXCEPT ![n].pc = "rejected"]
            /\ UNCHANGED <<wtReg, wtDir, wtOwner, gitVars>>
  /\ UNCHANGED <<sessions, initializing, calls, teardown, closeCalls, removeCalls, vmState,
                 lastGet, dall>>
  /\ UNCHANGED <<bash, branchRuns, remoteBranches>>

\* session-manager.ts:89-102  await VM.create(...); then init() returns the state.
vmCreateDone(n) ==
  /\ inits[n].pc = "vm"
  /\ \E ok \in BOOLEAN :
       IF ok
       THEN /\ vmState' = [vmState EXCEPT ![n] = "open"]
            /\ inits' = [inits EXCEPT ![n].pc = "fulfilled"]
       ELSE /\ inits' = [inits EXCEPT ![n].pc = "rejected"]
            /\ UNCHANGED vmState
  /\ UNCHANGED <<sessions, initializing, calls, teardown, closeCalls, removeCalls,
                 wtDir, wtReg, wtOwner, lastGet, dall>>
  /\ UNCHANGED toolVars

\* session-manager.ts:35-41: the continuation of the call that started init().
ownerResume(c) ==
  /\ calls[c].role = "owner"
  /\ calls[c].pc = "waiting"
  /\ Settled(calls[c].promise)
  /\ LET n == calls[c].promise
         id == calls[c].sid IN
       IF inits[n].pc = "fulfilled"
       THEN /\ sessions' = [sessions EXCEPT ![id] = n]
            /\ initializing' = ClearInflight(id)
            /\ calls' = [calls EXCEPT ![c].pc = "returned", ![c].result = n]
       ELSE /\ initializing' = ClearInflight(id)
            /\ calls' = [calls EXCEPT ![c].pc = "raised"]
            /\ UNCHANGED sessions
  /\ UNCHANGED <<inits, teardown, closeCalls, removeCalls, vmState, wtDir, wtReg,
                 wtOwner, lastGet, dall>>
  /\ UNCHANGED toolVars

\* session-manager.ts:30  `return inflight`: the call settles as the promise does.
waiterResume(c) ==
  /\ calls[c].role = "waiter"
  /\ calls[c].pc = "waiting"
  /\ Settled(calls[c].promise)
  /\ LET n == calls[c].promise IN
       IF inits[n].pc = "fulfilled"
       THEN calls' = [calls EXCEPT ![c].pc = "returned", ![c].result = n]
       ELSE calls' = [calls EXCEPT ![c].pc = "raised"]
  /\ UNCHANGED <<sessions, initializing, inits, teardown, closeCalls, removeCalls, vmState,
                 wtDir, wtReg, wtOwner, lastGet, dall>>
  /\ UNCHANGED toolVars

\* ---------------------------------------------------------------- get
\* session-manager.ts:47-49
get(id) ==
  /\ lastGet' = [result |-> sessions[id],
                 torn |-> sessions[id] # None /\ sessions[id] \in Torn]
  /\ UNCHANGED <<sessions, initializing, inits, calls, teardown, closeCalls, removeCalls,
                 vmState, wtDir, wtReg, wtOwner, dall>>
  /\ UNCHANGED toolVars

\* ---------------------------------------------------------------- destroy
\* A destroy that does not delete from the registry before its awaits.
KeepRegistered(ids) == sessions

\* session-manager.ts:65  this.sessions.delete(sessionID)
Unregister(ids) == [id \in SessionIDs |-> IF id \in ids THEN None ELSE sessions[id]]

\* session-manager.ts:61-68: the synchronous part of destroy() for each id of
\* `ids` (one id for destroy, the key snapshot for destroyAll): the early return
\* for an absent id, the two deletes, and the vm.close() call.
DestroySync(ids) ==
  LET hit == {id \in ids : sessions[id] # None}
      objs == {sessions[id] : id \in hit} IN
  /\ sessions' = Unregister(hit)
  /\ initializing' = [id \in SessionIDs |-> IF id \in hit THEN None ELSE initializing[id]]
  /\ teardown' = [n \in Insts |-> IF n \in objs THEN "closing" ELSE teardown[n]]
  /\ closeCalls' = [n \in Insts |-> IF n \in objs THEN Bump(closeCalls[n]) ELSE closeCalls[n]]

destroy(id) ==
  /\ DestroySync({id})
  /\ UNCHANGED <<inits, calls, removeCalls, vmState, wtDir, wtReg, wtOwner, lastGet, dall>>
  /\ UNCHANGED toolVars

\* session-manager.ts:68-69  await state.vm.close(): on success removeWorktree is
\* called and issues `git worktree remove` (worktree.ts:34); a rejection leaves
\* destroy() through the await, raising.
vmCloseDone(n) ==
  /\ teardown[n] = "closing"
  /\ \E ok \in BOOLEAN :
       IF ok
       THEN /\ vmState' = [vmState EXCEPT ![n] = "closed"]
            /\ teardown' = [teardown EXCEPT ![n] = "rm_git"]
            /\ removeCalls' = [removeCalls EXCEPT ![n] = Bump(removeCalls[n])]
       ELSE /\ teardown' = [teardown EXCEPT ![n] = "raised"]
            /\ UNCHANGED <<vmState, removeCalls>>
  /\ UNCHANGED <<sessions, initializing, inits, calls, closeCalls, wtDir, wtReg, wtOwner,
                 lastGet, dall>>
  /\ UNCHANGED toolVars

\* worktree.ts:34-36  `git worktree remove --force <dir>`, failure swallowed; git
\* fails when the path is not a registered worktree.  Then fs.rm is issued.
worktreeRemoveDone(n) ==
  /\ teardown[n] = "rm_git"
  /\ LET id == inits[n].sid IN
     \E ok \in BOOLEAN :
       IF ok /\ wtReg[id]
       THEN /\ wtReg' = [wtReg EXCEPT ![id] = FALSE]
            /\ wtDir' = [wtDir EXCEPT ![id] = FALSE]
            /\ wtOwner' = [wtOwner EXCEPT ![id] = None]
            /\ wtDirty' = [wtDirty EXCEPT ![id] = FALSE]
            /\ wtAhead' = [wtAhead EXCEPT ![id] = FALSE]
       ELSE UNCHANGED <<wtReg, wtDir, wtOwner, gitVars>>
  /\ teardown' = [teardown EXCEPT ![n] = "rm_dir"]
  /\ UNCHANGED <<sessions, initializing, inits, calls, closeCalls, removeCalls, vmState,
                 lastGet, dall>>
  /\ UNCHANGED <<bash, branchRuns, remoteBranches>>

\* worktree.ts:38  fs.rm(worktreeDir, { recursive, force }), failure swallowed;
\* removeWorktree returns and destroy() with it.
rmDone(n) ==
  /\ teardown[n] = "rm_dir"
  /\ LET id == inits[n].sid IN
     \E ok \in BOOLEAN :
       IF ok
       THEN /\ wtDir' = [wtDir EXCEPT ![id] = FALSE]
            /\ wtDirty' = [wtDirty EXCEPT ![id] = FALSE]
            /\ wtAhead' = [wtAhead EXCEPT ![id] = FALSE]
       ELSE UNCHANGED <<wtDir, gitVars>>
  /\ teardown' = [teardown EXCEPT ![n] = "done"]
  /\ UNCHANGED <<sessions, initializing, inits, calls, closeCalls, removeCalls, vmState,
                 wtReg, wtOwner, lastGet, dall>>
  /\ UNCHANGED <<bash, branchRuns, remoteBranches>>

\* ---------------------------------------------------------------- destroyAll
\* A loop that awaits each destroy() in turn starts only the first one within
\* the call.
FirstOnly(ids) == IF ids = {} THEN {} ELSE {CHOOSE id \in ids : TRUE}

\* session-manager.ts:77  ids.map((id) => this.destroy(id)): every destroy()
\* is started within the call.
DestroyTargets(ids) == ids

\* session-manager.ts:75-77 (called from cleanup, index.ts:22-24): the key
\* snapshot and the synchronous part of every destroy() of the map.
destroyAll(d) ==
  /\ dall[d].pc = "idle"
  /\ \A b \in 1..(d - 1) : dall[b].pc # "idle"
  /\ LET ids == {id \in SessionIDs : sessions[id] # None} IN
       /\ DestroySync(DestroyTargets(ids))
       /\ dall' = [dall EXCEPT ![d] = [pc |-> "waiting", ids |-> ids,
                                        snap |-> {sessions[id] : id \in ids}]]
  /\ UNCHANGED <<inits, calls, removeCalls, vmState, wtDir, wtReg, wtOwner, lastGet>>
  /\ UNCHANGED toolVars

\* session-manager.ts:77  await Promise.all(...): rejects as soon as one
\* destroy() has raised, fulfils when all have returned.
destroyAllSettle(d) ==
  /\ dall[d].pc = "waiting"
  /\ \/ /\ \E n \in dall[d].snap : teardown[n] = "raised"
        /\ dall' = [dall EXCEPT ![d].pc = "raised"]
     \/ /\ \A n \in dall[d].snap : teardown[n] = "done"
        /\ dall' = [dall EXCEPT ![d].pc = "returned"]
  /\ UNCHANGED <<sessions, initializing, inits, calls, teardown, closeCalls, removeCalls,
                 vmState, wtDir, wtReg, wtOwner, lastGet>>
  /\ UNCHANGED toolVars

\* ---------------------------------------------------------------- Spec
Next ==
  \/ \E c \in Calls, id \in SessionIDs : getOrCreate(c, id)
  \/ \E n \in Insts : mkdirDone(n)
  \/ \E n \in Insts : worktreeAddDone(n)
  \/ \E n \in Insts : vmCreateDone(n)
  \/ \E c \in Calls : ownerResume(c)
  \/ \E c \in Calls : waiterResume(c)
  \/ \E id \in SessionIDs : get(id)
  \/ \E id \in SessionIDs : destroy(id)
  \/ \E n \in Insts : vmCloseDone(n)
  \/ \E n \in Insts : worktreeRemoveDone(n)
  \/ \E n \in Insts : rmDone(n)
  \/ \E d \in DAlls : destroyAll(d)
  \/ \E d \in DAlls : destroyAllSettle(d)

Spec == Init /\ [][Next]_vars

\* ================================================================ bash tool
\* output.slice(0, MAX_METADATA_LENGTH): the head instead of the tail.
MetadataHead(out) == Take(out, MAX_METADATA_LENGTH)

\* bash-tool.ts:87  output.slice(-MAX_METADATA_LENGTH)
MetadataOutput(out) == slice(out, 0 - MAX_METADATA_LENGTH)

\* The two ifs chained as if / else if: at most one marker.
MarkersElseIf(timedOut, aborted) ==
  IF timedOut THEN TimeoutMarker ELSE IF aborted THEN AbortMarker ELSE <<>>

\* bash-tool.ts:109-114  the marker lines appended after the try statement
Markers(timedOut, aborted) ==
  Cat(IF timedOut THEN TimeoutMarker ELSE <<>>, IF aborted THEN AbortMarker ELSE <<>>)

\* A finally block that leaves a pending timer armed.
timerLeftArmed(t) == t

\* bash-tool.ts:105  clearTimeout(timer): cancels the timer when it is pending
clearTimeout(t) == IF t = "armed" THEN "cleared" ELSE t

\* bash-tool.ts:106  context.abort.removeEventListener("abort", onAbort)
removeEventListener(l) == IF l = "registered" THEN "removed" ELSE l

\* bash-tool.ts:104-116  finally { clearTimeout; removeEventListener }, the
\* markers and the return, with `out` the output the try statement left.
Return(out) ==
  [bash EXCEPT !.pc = "returned",
               !.timer = clearTimeout(@),
               !.listener = removeEventListener(@),
               !.body = out,
               !.output = Cat(out, Markers(bash.timedOut, bash.aborted))]

Finish(out) == bash' = Return(out)

\* bash-tool.ts:32  await sessionManager.getOrCreate(context.sessionID)
bashExecute(id) ==
  /\ bash.pc = "idle"
  /\ \E c \in Calls :
       /\ GetOrCreateSync(c, id)
       /\ bash' = [bash EXCEPT !.pc = "resolving", !.call = c]
  /\ UNCHANGED branchVars

\* bash-tool.ts:32-80  the continuation once getOrCreate has settled: a
\* rejection leaves execute; otherwise cwd is resolved (35-43), the initial
\* metadata is published
\* (50-53), vm.exec is called (56-60; it either hands back the process or
\* throws), the timer is armed (67-70), the abort listener is registered (77)
\* and the for-await asks for the first chunk (80).
bashResolved ==
  /\ bash.pc = "resolving"
  /\ calls[bash.call].pc \in {"returned", "raised"}
  /\ IF calls[bash.call].pc = "raised"
     THEN bash' = [bash EXCEPT !.pc = "raised"]
     ELSE \E launch \in {"ok", "throws"} :
            IF launch = "throws"
            THEN bash' = [bash EXCEPT !.pc = "raised", !.resolved = TRUE, !.published = 1,
                                      !.cwd = ResolveCwd(bash.workdir)]
            ELSE bash' = [bash EXCEPT !.pc = "drain", !.resolved = TRUE, !.published = 1,
                                      !.cwd = ResolveCwd(bash.workdir),
                                      !.proc = "running", !.timer = "armed",
                                      !.listener = "registered"]
  /\ UNCHANGED <<smVars, branchVars>>

\* bash-tool.ts:67-70  the timer callback
timerFires ==
  /\ bash.timer = "armed"
  /\ bash' = [bash EXCEPT !.timer = "fired", !.timedOut = TRUE, !.kills = Bump(@)]
  /\ UNCHANGED <<smVars, branchVars>>

\* The caller aborts context.abort; bash-tool.ts:73-77: the listener, when it
\* is registered, runs once.  abortAt keeps where execute was at that moment.
abortSignal ==
  /\ bash.pc # "idle"
  /\ ~bash.signal
  /\ IF bash.listener = "registered"
     THEN bash' = [bash EXCEPT !.signal = TRUE, !.listener = "fired", !.aborted = TRUE,
                               !.kills = Bump(@), !.abortAt = bash.pc]
     ELSE bash' = [bash EXCEPT !.signal = TRUE, !.abortAt = bash.pc]
  /\ UNCHANGED <<smVars, branchVars>>

\* The process ends, by itself or because it was killed.
procExit ==
  /\ bash.proc = "running"
  /\ bash' = [bash EXCEPT !.proc = "exited"]
  /\ UNCHANGED <<smVars, branchVars>>

\* bash-tool.ts:80-92  one chunk of proc.output()
chunk ==
  /\ bash.pc = "drain"
  /\ bash.nChunks < MaxChunks
  /\ \E ck \in ChunkData :
       LET out == Cat(bash.output, ck.data) IN
       bash' = [bash EXCEPT !.output = out,
                            !.meta = MetadataOutput(out),
                            !.published = Bump(@),
                            !.drained = Cat(@, ck.data),
                            !.errSeen = IF ck.stream = "stderr" THEN Cat(@, ck.data) ELSE @,
                            !.nChunks = @ + 1,
                            !.pc = IF bash.timedOut \/ bash.aborted THEN "await_proc"
                                   ELSE "drain"]
  /\ UNCHANGED <<smVars, branchVars>>

\* bash-tool.ts:80, 94  proc.output() ends (at process exit); proc is awaited
streamEnd ==
  /\ bash.pc = "drain"
  /\ bash.proc = "exited"
  /\ bash' = [bash EXCEPT !.pc = "await_proc"]
  /\ UNCHANGED <<smVars, branchVars>>

\* bash-tool.ts:80, 102-116  proc.output() throws
streamError ==
  /\ bash.pc = "drain"
  /\ Finish(bash.output)
  /\ UNCHANGED <<smVars, branchVars>>

\* bash-tool.ts:94-101, 104-116  the awaited process resolves.  The process
\* wrote to stderr what was drained as stderr chunks and possibly a rest that
\* was not drained; result.stderr, which the VM runtime fills, is all of it or
\* the rest only.  It is appended as it is when the exit code is not zero.
procResolve ==
  /\ bash.pc = "await_proc"
  /\ bash.proc = "exited"
  /\ \E exitCode \in {0, 1}, rest \in {<<>>, Data("stderr", 1)} :
       \E stderr \in {Cat(bash.errSeen, rest), rest} :
         bash' = [Return(IF exitCode # 0 /\ stderr # <<>> THEN Cat(bash.output, stderr)
                                                          ELSE bash.output)
                    EXCEPT !.exitCode = exitCode, !.errRest = rest]
  /\ UNCHANGED <<smVars, branchVars>>

\* bash-tool.ts:94, 102-116  the awaited process rejects
procReject ==
  /\ bash.pc = "await_proc"
  /\ Finish(bash.output)
  /\ UNCHANGED <<smVars, branchVars>>

NextBash ==
  \/ \E id \in SessionIDs : bashExecute(id)
  \/ \E n \in Insts : mkdirDone(n)
  \/ \E n \in Insts : worktreeAddDone(n)
  \/ \E n \in Insts : vmCreateDone(n)
  \/ \E c \in Calls : ownerResume(c)
  \/ bashResolved
  \/ timerFires
  \/ abortSignal
  \/ procExit
  \/ chunk
  \/ streamEnd
  \/ streamError
  \/ procResolve
  \/ procReject

SpecBash == Init /\ [][NextBash]_vars

\* execute up to the start of the command, for every working-directory override
NextCwd ==
  \/ bashExecute(ToolSession)
  \/ \E n \in Insts : mkdirDone(n)
  \/ \E n \in Insts : worktreeAddDone(n)
  \/ \E n \in Insts : vmCreateDone(n)
  \/ \E c \in Calls : ownerResume(c)
  \/ bashResolved

SpecCwd == InitCwd /\ [][NextCwd]_vars

\* The event loop runs every continuation whose awaited operation has
\* completed: the file, git and VM operations of init() complete, a settled
\* getOrCreate resumes execute (bash-tool.ts:32), the for-await resumes when
\* the stream of an ended process ends (80) and `await proc` resumes when the
\* process has ended (94).  Nothing makes the process end or write output, the
\* timer fire or the caller abort.
SpecBashFair ==
  /\ SpecBash
  /\ \A n \in Insts : WF_vars(mkdirDone(n)) /\ WF_vars(worktreeAddDone(n))
                        /\ WF_vars(vmCreateDone(n))
  /\ \A c \in Calls : WF_vars(ownerResume(c))
  /\ WF_vars(bashResolved)
  /\ WF_vars(streamEnd)
  /\ WF_vars(procResolve)

\* ================================================================ create-branch tool
\* create-branch-tool.ts:90-92  message.includes("already exists")
PushErrorText(message) ==
  IF message = "already exists" THEN "Error: Branch already exists on the remote"
  ELSE "Error pushing branch"

\* The files of a session's worktree are changed (by a file tool or a command).
edit(id) ==
  /\ sessions[id] # None
  /\ wtDir[id] /\ wtReg[id]
  /\ ~wtDirty[id]
  /\ wtDirty' = [wtDirty EXCEPT ![id] = TRUE]
  /\ UNCHANGED <<smVars, bash, branchRuns, wtAhead, remoteBranches>>

\* The worktree of id holds a commit whose push has failed (no push of it is
\* under way) and the branch `name` is free on the remote.
Unpushed(id, name) ==
  /\ wtAhead[id]
  /\ \A q \in BranchRuns : branchRuns[q].pc \notin {"pushing", "remote"}
  /\ name \notin remoteBranches

\* create-branch-tool.ts:35-54  up to the await of hasChanges; `unpushed`
\* keeps what the call found when it was made.
branchExecute(r, id, name) ==
  /\ branchRuns[r].pc = "idle"
  /\ \A b \in 1..(r - 1) : branchRuns[b].pc # "idle"
  /\ IF sessions[id] = None
     THEN branchRuns' = [branchRuns EXCEPT ![r] = [pc |-> "returned", sid |-> id, name |-> name,
                                                     result |-> "Error: No active session found",
                                                     unpushed |-> FALSE]]
     ELSE branchRuns' = [branchRuns EXCEPT ![r] = [pc |-> "checking", sid |-> id, name |-> name,
                                                     result |-> "-",
                                                     unpushed |-> Unpushed(id, name)]]
  /\ UNCHANGED <<smVars, bash, gitVars, remoteBranches>>

\* create-branch-tool.ts:54-70 and worktree.ts:51-56  `git status --porcelain`
\* answers (it cannot where there is no worktree), or raises; on changes
\* commitAllChanges issues `git add -A` (worktree.ts:65).
hasChangesDone(r) ==
  /\ branchRuns[r].pc = "checking"
  /\ LET id == branchRuns[r].sid IN
     \E ok \in BOOLEAN :
       IF ok /\ wtDir[id] /\ wtReg[id]
       THEN IF wtDirty[id]
            THEN branchRuns' = [branchRuns EXCEPT ![r].pc = "adding"]
            ELSE branchRuns' = [branchRuns EXCEPT ![r].pc = "returned",
                                                  ![r].result = "No changes to push"]
       ELSE branchRuns' = [branchRuns EXCEPT ![r].pc = "raised"]
  /\ UNCHANGED <<smVars, bash, gitVars, remoteBranches>>

\* worktree.ts:65-66, create-branch-tool.ts:69-74  `git add -A` ends; on
\* success `git commit` is issued
gitAddDone(r) ==
  /\ branchRuns[r].pc = "adding"
  /\ \E ok \in BOOLEAN :
       IF ok
       THEN branchRuns' = [branchRuns EXCEPT ![r].pc = "committing"]
       ELSE branchRuns' = [branchRuns EXCEPT ![r].pc = "returned",
                                             ![r].result = "Error committing changes"]
  /\ UNCHANGED <<smVars, bash, gitVars, remoteBranches>>

\* worktree.ts:66, create-branch-tool.ts:69-87  `git commit -m` ends (it fails
\* with nothing to commit); on success pushBranch issues `git push`
gitCommitDone(r) ==
  /\ branchRuns[r].pc = "committing"
  /\ LET id == branchRuns[r].sid IN
     \E ok \in BOOLEAN :
       IF ok /\ wtDirty[id] /\ wtDir[id] /\ wtReg[id]
       THEN /\ wtDirty' = [wtDirty EXCEPT ![id] = FALSE]
            /\ wtAhead' = [wtAhead EXCEPT ![id] = TRUE]
            /\ branchRuns' = [branchRuns EXCEPT ![r].pc = "pushing"]
       ELSE /\ branchRuns' = [branchRuns EXCEPT ![r].pc = "returned",
                                                ![r].result = "Error committing changes"]
            /\ UNCHANGED gitVars
  /\ UNCHANGED <<smVars, bash, remoteBranches>>

\* worktree.ts:73-80, create-branch-tool.ts:86-97  `git push origin
\* HEAD:refs/heads/<name>` ends; on success getRemoteUrl is issued
pushDone(r) ==
  /\ branchRuns[r].pc = "pushing"
  /\ LET id == branchRuns[r].sid
         name == branchRuns[r].name IN
     \E outcome \in {"ok", "already exists", "failed"} :
       /\ outcome = "already exists" => name \in remoteBranches
       /\ IF outcome = "ok"
          THEN /\ remoteBranches' = remoteBranches \cup {name}
               /\ wtAhead' = [wtAhead EXCEPT ![id] = FALSE]
               /\ branchRuns' = [branchRuns EXCEPT ![r].pc = "remote"]
          ELSE /\ branchRuns' = [branchRuns EXCEPT ![r].pc = "returned",
                                                   ![r].result = PushErrorText(outcome)]
               /\ UNCHANGED <<wtAhead, remoteBranches>>
  /\ UNCHANGED <<smVars, bash, wtDirty>>

\* worktree.ts:85-94, create-branch-tool.ts:97-111  getRemoteUrl answers the
\* URL or null; the URL of a known host gives a PR link
remoteUrlDone(r) ==
  /\ branchRuns[r].pc = "remote"
  /\ \E url \in {"null", "github", "gitlab", "bitbucket", "other"} :
       branchRuns' = [branchRuns EXCEPT
         ![r].pc = "returned",
         ![r].result = IF url = "null" THEN "Successfully created branch"
                       ELSE IF url = "other" THEN "Successfully created branch, Remote"
                       ELSE "Successfully created branch, Create a PR"]
  /\ UNCHANGED <<smVars, bash, gitVars, remoteBranches>>

NextBranch ==
  \/ getOrCreate(1, ToolSession)
  \/ \E n \in Insts : mkdirDone(n)
  \/ \E n \in Insts : worktreeAddDone(n)
  \/ \E n \in Insts : vmCreateDone(n)
  \/ \E c \in Calls : ownerResume(c)
  \/ edit(ToolSession)
  \/ \E r \in BranchRuns, name \in BranchNames : branchExecute(r, ToolSession, name)
  \/ \E r \in BranchRuns : hasChangesDone(r)
  \/ \E r \in BranchRuns : gitAddDone(r)
  \/ \E r \in BranchRuns : gitCommitDone(r)
  \/ \E r \in BranchRuns : pushDone(r)
  \/ \E r \in BranchRuns : remoteUrlDone(r)

SpecBranch == Init /\ [][NextBranch]_vars

\* ---------------------------------------------------------------- event hook
\* index.ts:83-90  event: for a session.deleted event the handler runs
\* sessionManager.destroy(info.id) and swallows its rejection; it makes no
\* other call.  The history field of an init run in flight for the id is set.
sessionDeleted(id) ==
  /\ DestroySync({id})
  /\ inits' = [n \in Insts |-> IF initializing[id] = n
                                THEN [inits[n] EXCEPT !.deleted = "inflight"]
                                ELSE inits[n]]
  /\ UNCHANGED <<calls, removeCalls, vmState, wtDir, wtReg, wtOwner, lastGet, dall>>
  /\ UNCHANGED toolVars

\* The plugin's hooks around one session manager: tool.execute.before creates
\* sessions (index.ts:36-47), the tools change files of the worktree, the event
\* hook destroys sessions.
NextEvent ==
  \/ \E c \in Calls, id \in SessionIDs : getOrCreate(c, id)
  \/ \E n \in Insts : mkdirDone(n)
  \/ \E n \in Insts : worktreeAddDone(n)
  \/ \E n \in Insts : vmCreateDone(n)
  \/ \E c \in Calls : ownerResume(c)
  \/ \E c \in Calls : waiterResume(c)
  \/ \E id \in SessionIDs : edit(id)
  \/ \E id \in SessionIDs : sessionDeleted(id)
  \/ \E n \in Insts : vmCloseDone(n)
  \/ \E n \in Insts : worktreeRemoveDone(n)
  \/ \E n \in Insts : rmDone(n)

SpecEvent == Init /\ [][NextEvent]_vars

\* ================================================================ claims
OwnerRaised(n) == \E c \in Calls : calls[c].role = "owner" /\ calls[c].promise = n
                                   /\ calls[c].pc = "raised"

LaterInit(n) == \E m \in Used : m > n /\ inits[m].sid = inits[n].sid

\* C1: single-flight creation.  For every session id at most one init() run is
\* in flight (started and not yet delivered to the call that started it), every
\* call that is waiting while the run is pending waits on that one run, which
\* is the one published in the initializing map, every call that waited on a
\* run that succeeded resolved to that run's session object, and a second
\* run for the id is started only after the first has failed or its session
\* has been destroyed.
SingleFlight ==
  /\ \A n, m \in Used :
       (n < m /\ inits[n].sid = inits[m].sid)
         => \/ inits[n].pc = "rejected" /\ OwnerRaised(n)
            \/ teardown[n] # "none"
  /\ \A id \in SessionIDs :
       /\ Cardinality({n \in Used : inits[n].sid = id /\ Pending(n)}) <= 1
       /\ Cardinality({c \in Calls : calls[c].sid = id /\ calls[c].role = "owner"
                                      /\ calls[c].pc = "waiting"}) <= 1
  /\ \A c \in Calls :
       /\ (calls[c].pc = "waiting" /\ Pending(calls[c].promise))
             => initializing[calls[c].sid] = calls[c].promise
       /\ (calls[c].pc = "returned" /\ calls[c].role # "hit")
             => /\ calls[c].result = calls[c].promise
                /\ inits[calls[c].promise].pc = "fulfilled"
  /\ \A c1, c2 \in Calls :
       (calls[c1].pc = "returned" /\ calls[c2].pc = "returned"
          /\ calls[c1].promise # None /\ calls[c1].promise = calls[c2].promise)
         => calls[c1].result = calls[c2].result

SingleFlightWitness ==
  \E c1, c2 \in Calls :
    /\ c1 # c2
    /\ calls[c1].role = "owner" /\ calls[c1].pc = "returned"
    /\ calls[c2].role = "waiter" /\ calls[c2].pc = "returned"
    /\ calls[c1].promise = calls[c2].promise
    /\ calls[c1].result = calls[c2].result

\* C2: initialization failure.  No call waiting on a failed init() run returns a
\* session; once the call that started the run has received the error, the run
\* is in neither map, the id is in neither map until a later run is started,
\* and the initializing map never hands the failed run to a later call.
InitFailureCleared ==
  /\ \A c \in Calls :
       (calls[c].promise # None /\ inits[calls[c].promise].pc = "rejected")
         => calls[c].pc \in {"waiting", "raised"}
  /\ \A n \in Used :
       (inits[n].pc = "rejected" /\ OwnerRaised(n))
         => /\ initializing[inits[n].sid] # n
            /\ sessions[inits[n].sid] # n
            /\ ~LaterInit(n) => /\ initializing[inits[n].sid] = None
                                /\ sessions[inits[n].sid] = None

InitFailureWitness ==
  \E c1, c2 \in Calls :
    /\ calls[c1].role = "owner" /\ calls[c1].pc = "raised"
    /\ calls[c2].role = "owner" /\ calls[c2].sid = calls[c1].sid
    /\ calls[c2].promise > calls[c1].promise

\* C3: destroy(id) unregisters before any teardown I/O.  A session object whose
\* teardown has begun is not in the registry, no get(id) returns an object that
\* is being torn down, and no getOrCreate(id) that started after the destroy of
\* an object returns that object.
DestroyUnregistersFirst ==
  /\ \A n \in Insts : teardown[n] # "none" => \A id \in SessionIDs : sessions[id] # n
  /\ ~lastGet.torn
  /\ \A c \in Calls : calls[c].pc = "returned" => calls[c].result \notin calls[c].torn

DestroyUnregistersFirstWitness ==
  \E c \in Calls :
    /\ calls[c].pc = "returned"
    /\ calls[c].torn # {}
    /\ \E n \in calls[c].torn : teardown[n] \in {"closing", "rm_git", "rm_dir"}

\* C4: destroy(id) never raises, also when closing the VM fails, and no session
\* object has its VM closed or its worktree removed more than once.
DestroyNeverRaises ==
  /\ \A n \in Insts : teardown[n] # "raised"
  /\ \A n \in Insts : closeCalls[n] <= 1 /\ removeCalls[n] <= 1

\* C5: destroyAll() removes every session registered at the call from the
\* registry and calls vm.close() on each within the call itself, whatever
\* happens to the others; and once no teardown step is pending, every one of
\* them except those whose own vm.close() failed has had its worktree removal
\* run to its end.
DestroyAllIndependent ==
  \A d \in DAlls :
    dall[d].pc # "idle" =>
      /\ \A n \in dall[d].snap :
           /\ teardown[n] # "none"
           /\ closeCalls[n] = 1
           /\ sessions[inits[n].sid] # n
      /\ (\A m \in Insts : teardown[m] \in {"none", "done", "raised"})
           => \A n \in dall[d].snap :
                \/ teardown[n] = "raised"
                \/ teardown[n] = "done" /\ removeCalls[n] = 1 /\ vmState[n] = "closed"

DestroyAllIndependentWitness ==
  \E d \in DAlls : \E n, m \in dall[d].snap :
    /\ n # m
    /\ teardown[n] = "raised"
    /\ teardown[m] = "done"
    /\ dall[d].pc = "raised"

\* C6: worktree exclusivity.  A path that is being created for, or is owned by,
\* a registered or initializing session is never at the same time being removed
\* by the teardown of another session object.
Live(n) == initializing[inits[n].sid] = n \/ sessions[inits[n].sid] = n

WorktreeExclusive ==
  \A i, j \in Used :
    (i # j /\ inits[i].sid = inits[j].sid /\ teardown[j] \in {"rm_git", "rm_dir"})
      => ~Live(i)

\* C7, as claimed: in every returned run of execute in which the timer fired,
\* the text contains the timeout marker; the text contains the abort marker
\* exactly when the abort listener ran; with both, the timeout marker comes
\* first.
HasMarker(t, m) == \E i \in 1..Len(t) : t[i].ch = m[1].ch /\ t[i].n >= m[1].n

Before(t, m1, m2) ==
  \E i, j \in 1..Len(t) : /\ i < j
                          /\ t[i].ch = m1[1].ch /\ t[i].n >= m1[1].n
                          /\ t[j].ch = m2[1].ch /\ t[j].n >= m2[1].n

TimeoutMarkerInText ==
  bash.pc = "returned" =>
    /\ bash.timer = "fired" => HasMarker(bash.output, TimeoutText)
    /\ HasMarker(bash.output, AbortText) <=> bash.listener = "fired"
    /\ (bash.timer = "fired" /\ bash.listener = "fired")
         => Before(bash.output, TimeoutText, AbortText)

\* C7, amended: in every returned run of execute in which the timer fired, the
\* text contains the timeout marker; the lines execute appends after the
\* command's output and stderr contain the abort marker exactly when the abort
\* listener ran, and the timeout marker exactly when the timer fired; with
\* both, the text ends with the timeout marker line and then the abort marker
\* line.
Appended == Drop(bash.output, Length(bash.body))

TimeoutMarkerAppended ==
  bash.pc = "returned" =>
    /\ Take(bash.output, Length(bash.body)) = bash.body
    /\ bash.timer = "fired" => HasMarker(bash.output, TimeoutText)
    /\ HasMarker(Appended, TimeoutText) <=> bash.timer = "fired"
    /\ HasMarker(Appended, AbortText) <=> bash.listener = "fired"
    /\ (bash.timer = "fired" /\ bash.listener = "fired")
         => Appended = TimeoutMarker \o AbortMarker

TimeoutMarkerWitness ==
  /\ bash.pc = "returned"
  /\ bash.timer = "fired"
  /\ bash.listener = "fired"
  /\ bash.nChunks > 0
  /\ HasMarker(bash.body, AbortText)

\* C8: once the session is resolved, execute returns a text and never raises.
ExecuteNeverRaises == bash.resolved => bash.pc # "raised"

\* C9: bounded progress metadata.  Every published output field is at most
\* MAX_METADATA_LENGTH long and is the longest such suffix of the output
\* accumulated so far; the text under construction is the whole accumulation,
\* and the returned text is the whole accumulation followed only by stderr
\* text and marker lines.
IsSuffix(m, t) ==
  /\ Length(m) <= Length(t)
  /\ Cat(Take(t, Length(t) - Length(m)), m) = t

BoundedMetadata ==
  /\ Length(bash.meta) <= MAX_METADATA_LENGTH
  /\ IsSuffix(bash.meta, bash.drained)
  /\ Length(bash.meta) = IF Length(bash.drained) < MAX_METADATA_LENGTH
                         THEN Length(bash.drained) ELSE MAX_METADATA_LENGTH
  /\ bash.pc \in {"drain", "await_proc"} => bash.output = bash.drained
  /\ bash.pc = "returned" =>
       LET tail == Drop(bash.output, Length(bash.drained)) IN
       /\ Take(bash.output, Length(bash.drained)) = bash.drained
       /\ \A i \in 1..Len(tail) : tail[i].ch \in {"e", "nl", "T", "A"}

BoundedMetadataWitness ==
  /\ bash.pc = "returned"
  /\ bash.nChunks >= 2
  /\ Length(bash.drained) > MAX_METADATA_LENGTH
  /\ Length(bash.meta) = MAX_METADATA_LENGTH
  /\ Len(bash.meta) = 2
  /\ Length(bash.output) > Length(bash.drained)

\* C10: the create-branch tool's execute always returns a text and never
\* raises, whichever of its version-control steps fails.
BranchNeverRaises == \A r \in BranchRuns : branchRuns[r].pc # "raised"

\* C11: publish at session teardown.  When the removal of the worktree of a
\* deleted session is issued, the worktree holds no uncommitted changes: the
\* changes it had when the session-deleted event arrived were committed (and
\* their push attempted) before.
PublishBeforeRemoval ==
  \A n \in Used :
    (teardown[n] = "rm_git" /\ wtOwner[inits[n].sid] = n) => ~wtDirty[inits[n].sid]

\* C12: destruction order, best-effort.  The worktree removal is attempted only
\* after the VM close was attempted, and every destroy() that has ended, by
\* returning or by raising, has attempted the worktree removal.
CloseThenRemoveAlways ==
  \A n \in Used :
    /\ removeCalls[n] > 0 => closeCalls[n] > 0
    /\ teardown[n] \in {"done", "raised"} => removeCalls[n] > 0

Quiescent ==
  /\ \A n \in Insts : ~Pending(n) /\ teardown[n] \notin {"closing", "rm_git", "rm_dir"}
  /\ \A c \in Calls : calls[c].pc # "waiting"

\* C17: destroy wins over an in-flight creation.  When a session-deleted event
\* was handled while init run n of the id was in flight and no getOrCreate of
\* the id was issued afterwards, then once nothing is pending the session of n
\* is not registered, its VM is not open and its worktree is not in place.
\* Stated for the runs whose init succeeded; a failed init is the case of C20.
DestroyWinsOverInit ==
  \A n \in Used :
    (inits[n].deleted = "inflight" /\ inits[n].pc = "fulfilled" /\ Quiescent)
      => /\ sessions[inits[n].sid] # n
         /\ vmState[n] # "open"
         /\ wtOwner[inits[n].sid] # n

\* C20: a failed initialization leaves no orphan resource.  Once getOrCreate
\* has raised because init run n failed, the worktree that n created for the
\* id (directory and registration) is not in place any more.
NoOrphanWorktree ==
  \A n \in Used :
    (inits[n].pc = "rejected" /\ OwnerRaised(n))
      => ~(wtOwner[inits[n].sid] = n /\ wtReg[inits[n].sid] /\ wtDir[inits[n].sid])

Finished == bash.pc \in {"returned", "raised"}

\* C13: release on every exit path.  Every step that leaves execute finished
\* leaves the timer not armed and the abort listener not registered, and no
\* step taken after execute has finished issues a kill request or changes a
\* termination flag.
ReleasedOnExit ==
  [][/\ Finished' => (bash'.timer # "armed" /\ bash'.listener # "registered")
     /\ Finished => /\ bash'.kills = bash.kills
                    /\ bash'.timedOut = bash.timedOut
                    /\ bash'.aborted = bash.aborted]_vars

\* execute returned with the timer cancelled and the listener deregistered,
\* and the abort signal raised outside the listener's life had no effect.
ReleasedOnExitWitness ==
  /\ bash.pc = "returned"
  /\ bash.timer = "cleared"
  /\ bash.listener = "removed"
  /\ bash.signal
  /\ ~bash.aborted
  /\ bash.kills = 0

\* C14: termination after a trigger.  Once the timeout timer has fired or the
\* abort listener has run, execute eventually returns, whatever the process
\* does from then on.
TriggerLeadsToReturn ==
  (bash.timer = "fired" \/ bash.listener = "fired") ~> (bash.pc = "returned")

RECURSIVE Count(_, _)
Count(str, ch) ==
  IF str = <<>> THEN 0
  ELSE (IF str[1].ch = ch THEN str[1].n ELSE 0) + Count(Tail(str), ch)

\* C15: stderr is appended at most once.  In the text execute returns, the
\* stderr text takes no more room than what the process wrote to stderr (the
\* drained stderr chunks and the rest that was not drained), and after exit
\* code zero the text before the markers is the drained output alone.
StderrAtMostOnce ==
  bash.pc = "returned"
    => /\ Count(bash.body, "e") <= Length(bash.errSeen) + Length(bash.errRest)
       /\ bash.exitCode = 0 => bash.body = bash.drained

\* C19: abort is honoured whenever it happens during the call.  When execute
\* has returned and the abort signal was triggered between its invocation and
\* its return, the process received a kill request and the returned text
\* contains the abort marker.
AbortHonoured ==
  (bash.pc = "returned" /\ bash.abortAt \in {"resolving", "drain", "await_proc"})
    => (bash.kills > 0 /\ HasMarker(bash.output, AbortText))

\* C18: changes are never stranded by a failed push.  A create-branch call
\* made when the worktree holds a commit whose push has failed, with a branch
\* name that is free on the remote, does not answer "No changes to push".
NoStrandedCommit ==
  \A r \in BranchRuns :
    (branchRuns[r].pc = "returned" /\ branchRuns[r].unpushed)
      => branchRuns[r].result # "No changes to push"

\* C16: working-directory resolution agrees with the prefix rule of remapPath.
\* The cwd is the mount point when no override is given, the mount point plus
\* the remainder (as a directory, that is up to normalization) when the
\* override is one whose project prefix remapPath replaces, and the override
\* verbatim otherwise.
CwdAgreesWithRemap ==
  bash.resolved =>
    IF bash.workdir = <<>> THEN bash.cwd = vmWorkspace
    ELSE IF UnderProject(bash.workdir)
         THEN normalize(bash.cwd) =
                normalize(vmWorkspace \o SubSeq(normalize(bash.workdir), Len(projectDir) + 1,
                                                Len(normalize(bash.workdir))))
         ELSE bash.cwd = bash.workdir


====
